---- MODULE Spec2Model ----
(***************************************************************************)
(* SensorCloud strain monitor (strain_monitor.py): the binary decoders of  *)
(* authenticate_key and download_data_range, the nearest-timestamp peak    *)
(* difference of calculate_peak_difference, and the polling loop of main   *)
(* with its alert_sent flag.                                               *)
(*                                                                         *)
(* Python values are modelled as follows: bytes and str are sequences of   *)
(* byte values 0..255; a list of (timestamp, value) tuples is a sequence   *)
(* of pairs <<ts, val>>; an optional float is <<>> (None) or <<v>>; a      *)
(* call's outcome is a record whose kind is "ok", "none" or "raise".       *)
(* Timestamps are nanoseconds relative to a base instant so that they fit  *)
(* the model checker's integers; sensor values are integer-valued floats.  *)
(***************************************************************************)
EXTENDS Integers, Sequences, FiniteSets, TLC

VARIABLES
    pc,               \* position of main: "auth", "cycle", "sleep", "exited", "crashed", "stopped";
                      \* or, for the function-level specifications, "call_f" / "ret_f"
    server,           \* main's server (bytes), <<>> before authentication
    auth_token,       \* main's auth_token (bytes)
    alert_sent,       \* main's alert_sent flag
    peak_difference,  \* main's peak_difference of the last iteration: <<>> or <<v>>
    obs,              \* what the last iteration did and saw (record, see NoObs)
    hist,             \* what the run did so far (record, see NoHist)
    arg,              \* function-level specifications: the argument of the call
    ret               \* function-level specifications: the outcome of the call

vars == <<pc, server, auth_token, alert_sent, peak_difference, obs, hist, arg, ret>>

(***************************************************************************)
(* Program constants.                                                      *)
(***************************************************************************)
THRESHOLD == 274
HTTP_OK == 200
RECORD_SIZE == 12
MIN_AUTH_LEN == 8
MAX_SERVER_LEN == 100
ONE_SECOND_NS == 1000000000

None == <<>>
Some(v) == <<v>>
Abs(x) == IF x < 0 THEN -x ELSE x

RECURSIVE Pow2(_)
Pow2(n) == IF n = 0 THEN 1 ELSE 2 * Pow2(n - 1)

RECURSIVE SeqsUpTo(_, _)
\* All sequences over S of length 0..n.
SeqsUpTo(S, n) ==
    IF n = 0 THEN {<<>>}
    ELSE LET shorter == SeqsUpTo(S, n - 1)
         IN shorter \cup {Append(s, x) : s \in shorter, x \in S}

(***************************************************************************)
(* struct: big-endian unsigned integers ("!I", "!Q") and IEEE-754 single   *)
(* precision floats ("!f").                                                *)
(***************************************************************************)
RECURSIVE PackBE(_, _)
\* struct.pack of an unsigned integer n into w big-endian bytes.
PackBE(n, w) == IF w = 0 THEN <<>> ELSE Append(PackBE(n \div 256, w - 1), n % 256)

RECURSIVE UnpackBE(_)
\* struct.unpack of big-endian bytes into an unsigned integer.
UnpackBE(b) ==
    IF b = <<>> THEN 0
    ELSE UnpackBE(SubSeq(b, 1, Len(b) - 1)) * 256 + b[Len(b)]

RECURSIVE Log2Floor(_)
Log2Floor(a) == IF a < 2 THEN 0 ELSE 1 + Log2Floor(a \div 2)

\* struct.pack("!f", v) for an integer-valued v with |v| < 2^24:
\* sign bit, exponent biased by 127, 23 mantissa bits.
PackF(v) ==
    IF v = 0 THEN <<0, 0, 0, 0>>
    ELSE LET s == IF v < 0 THEN 1 ELSE 0
             a == Abs(v)
             e == Log2Floor(a)
             ex == e + 127
             mant == (a - Pow2(e)) * Pow2(23 - e)
         IN << s * 128 + ex \div 2,
               (ex % 2) * 128 + mant \div 65536,
               (mant \div 256) % 256,
               mant % 256 >>

\* struct.unpack("!f", b): exact on the bit patterns of integer-valued floats,
\* the only ones the model feeds it.
UnpackF(b) ==
    LET s == b[1] \div 128
        ex == (b[1] % 128) * 2 + b[2] \div 128
        mant == (b[2] % 128) * 65536 + b[3] * 256 + b[4]
    IN IF ex = 0 /\ mant = 0 THEN 0
       ELSE LET sh == 150 - ex
                mag == IF sh >= 0 THEN (8388608 + mant) \div Pow2(sh)
                       ELSE (8388608 + mant) * Pow2(-sh)
            IN IF s = 1 THEN -mag ELSE mag

(***************************************************************************)
(* download_data_range: the decoding loop and the status check.            *)
(***************************************************************************)
Ok(v) == [kind |-> "ok", value |-> v]
Raise(e) == [kind |-> "raise", exc |-> e]

RECURSIVE DecodeLoopLenient(_, _)
\* Slip: `while len(data) >= 12:`, which drops a short remainder silently.
DecodeLoopLenient(data, data_points) ==
    IF Len(data) < RECORD_SIZE THEN Ok(data_points)
    ELSE DecodeLoopLenient(SubSeq(data, RECORD_SIZE + 1, Len(data)),
                           Append(data_points, <<UnpackBE(SubSeq(data, 1, 8)),
                                                 UnpackF(SubSeq(data, 9, 12))>>))

RECURSIVE DecodeLoopPrepend(_, _)
\* Slip: data_points.insert(0, ...) instead of append, reversing the order.
DecodeLoopPrepend(data, data_points) ==
    IF data = <<>> THEN Ok(data_points)
    ELSE IF Len(data) < RECORD_SIZE THEN Raise("struct.error")
    ELSE DecodeLoopPrepend(SubSeq(data, RECORD_SIZE + 1, Len(data)),
                           <<<<UnpackBE(SubSeq(data, 1, 8)),
                               UnpackF(SubSeq(data, 9, 12))>>>> \o data_points)

RECURSIVE DecodeLoop(_, _)
\* One pass of `while data:`: unpack_from("!Q", data, 0) needs 8 bytes and
\* unpack_from("!f", data, 8) needs 12; either raises struct.error otherwise.
DecodeLoop(data, data_points) ==
    IF data = <<>> THEN Ok(data_points)
    ELSE IF Len(data) < 8 THEN Raise("struct.error")
    ELSE IF Len(data) < RECORD_SIZE THEN Raise("struct.error")
    ELSE LET timestamp == UnpackBE(SubSeq(data, 1, 8))
             value == UnpackF(SubSeq(data, 9, 12))
         IN DecodeLoop(SubSeq(data, RECORD_SIZE + 1, Len(data)),
                       Append(data_points, <<timestamp, value>>))

\* response is [status, body]; a non-OK status yields the empty list.
download_data_range(response) ==
    IF response.status = HTTP_OK
    THEN DecodeLoop(response.body, <<>>)
    ELSE Ok(<<>>)

(***************************************************************************)
(* authenticate_key: the decoding of the handshake response.               *)
(***************************************************************************)
Min(a, b) == IF a < b THEN a ELSE b

\* data[a:b] for 0 <= a <= b: the end is clamped to the length, and a start
\* beyond it gives the empty sequence.
Slice(data, a, b) == SubSeq(data, a + 1, Min(b, Len(data)))

RECURSIVE StripLeft(_)
StripLeft(s) == IF s # <<>> /\ Head(s) = 0 THEN StripLeft(Tail(s)) ELSE s

RECURSIVE StripRight(_)
StripRight(s) ==
    IF s # <<>> /\ s[Len(s)] = 0 THEN StripRight(SubSeq(s, 1, Len(s) - 1)) ELSE s

\* str.strip('\x00')
StripNul(s) == StripRight(StripLeft(s))

NoneNone == [kind |-> "none"]
Unbound == <<>>

\* Slip: a zero length accepted as plausible.
PlausibleFrom0(server_length) == 0 <= server_length /\ server_length <= MAX_SERVER_LEN

\* 1 <= server_length <= 100
Plausible(server_length) == 1 <= server_length /\ server_length <= MAX_SERVER_LEN

RECURSIVE ScanServerOffset(_, _, _)
\* The while loop of lines 52-56: the offset and the server_length it ends
\* with; server_length stays unbound (<<>>) when the body never runs.
ScanServerOffset(data, server_offset, server_length) ==
    IF server_offset < Len(data) - 4
    THEN LET read == UnpackBE(Slice(data, server_offset, server_offset + 4))
         IN IF Plausible(read)
            THEN [server_offset |-> server_offset, server_length |-> Some(read)]
            ELSE ScanServerOffset(data, server_offset + 1, Some(read))
    ELSE [server_offset |-> server_offset, server_length |-> server_length]

\* Lines 40-63 on the handshake response [status, body].
authenticate_key(response) ==
    IF response.status = HTTP_OK
    THEN LET data == response.body
         IN IF Len(data) < MIN_AUTH_LEN THEN NoneNone
            ELSE LET auth_token_length == UnpackBE(Slice(data, 0, 4))
                     token == StripNul(Slice(data, 4, 4 + auth_token_length))
                     scan == ScanServerOffset(data, 4 + auth_token_length, Unbound)
                 IN IF scan.server_length = Unbound
                    THEN Raise("UnboundLocalError")
                    ELSE Ok([server |-> StripNul(Slice(data, scan.server_offset + 4,
                                                       scan.server_offset + 4
                                                           + scan.server_length[1])),
                             auth_token |-> token])
    ELSE NoneNone

(***************************************************************************)
(* calculate_peak_difference, lines 118-157: the analysis of the two       *)
(* fetched lists.                                                          *)
(***************************************************************************)
Keys(data) == {data[i][1] : i \in 1..Len(data)}

\* Slip: `d.setdefault(ts, val)`, which keeps the first sample of a timestamp.
DictOfFirst(data) ==
    [t \in Keys(data) |->
        LET first == CHOOSE i \in 1..Len(data) :
                         /\ data[i][1] = t
                         /\ \A j \in 1..(i - 1) : data[j][1] # t
        IN data[first][2]]

\* {ts: val for ts, val in data}: a later sample of a timestamp overwrites an
\* earlier one.
DictOf(data) ==
    [t \in Keys(data) |->
        LET last == CHOOSE i \in 1..Len(data) :
                        /\ data[i][1] = t
                        /\ \A j \in (i + 1)..Len(data) : data[j][1] # t
        IN data[last][2]]

RECURSIVE Sorted(_)
\* sorted(d.keys())
Sorted(S) ==
    IF S = {} THEN <<>>
    ELSE LET m == CHOOSE x \in S : \A y \in S : x <= y
         IN <<m>> \o Sorted(S \ {m})

RECURSIVE AdvanceIndexOnTie(_, _, _)
\* Slip: `<=` in the while condition, which also moves on when the next
\* reference timestamp is equally close.
AdvanceIndexOnTie(ch3_timestamps, ch3_index, ts) ==
    IF /\ ch3_index < Len(ch3_timestamps) - 1
       /\ Abs(ch3_timestamps[ch3_index + 2] - ts) <= Abs(ch3_timestamps[ch3_index + 1] - ts)
    THEN AdvanceIndexOnTie(ch3_timestamps, ch3_index + 1, ts)
    ELSE ch3_index

RECURSIVE AdvanceIndex(_, _, _)
\* The inner while loop: ch3_index (0-based) moves forward while the next
\* reference timestamp is strictly closer to ts.
AdvanceIndex(ch3_timestamps, ch3_index, ts) ==
    IF /\ ch3_index < Len(ch3_timestamps) - 1
       /\ Abs(ch3_timestamps[ch3_index + 2] - ts) < Abs(ch3_timestamps[ch3_index + 1] - ts)
    THEN AdvanceIndex(ch3_timestamps, ch3_index + 1, ts)
    ELSE ch3_index

\* Slip: `time_diff_sec < 1.0`.
WithinToleranceStrict(time_diff_ns) == time_diff_ns < ONE_SECOND_NS

\* Line 149: `time_diff_sec <= 1.0`, on the difference in nanoseconds.
WithinTolerance(time_diff_ns) == time_diff_ns <= ONE_SECOND_NS

RECURSIVE MatchLoop(_, _, _, _)
\* The for loop over ch1_timestamps from position i: for every monitored
\* timestamp, the reference timestamp it is matched with and whether the
\* match is within one second.
MatchLoop(ch1_timestamps, ch3_timestamps, i, ch3_index) ==
    IF i > Len(ch1_timestamps) THEN <<>>
    ELSE LET ts == ch1_timestamps[i]
             idx == AdvanceIndex(ch3_timestamps, ch3_index, ts)
             closest_ts == ch3_timestamps[idx + 1]
             time_diff_ns == Abs(closest_ts - ts)
         IN <<[ts |-> ts, closest_ts |-> closest_ts,
               matched |-> WithinTolerance(time_diff_ns)]>>
            \o MatchLoop(ch1_timestamps, ch3_timestamps, i + 1, idx)

Matches(ch1_data, ch3_data) ==
    MatchLoop(Sorted(Keys(ch1_data)), Sorted(Keys(ch3_data)), 1, 0)

\* matched_differences: ch1_dict[ts] - ch3_dict[closest_ts] of the matches
\* within tolerance, in loop order.
MatchedDifferences(ch1_data, ch3_data) ==
    LET ch1_dict == DictOf(ch1_data)
        ch3_dict == DictOf(ch3_data)
        kept == SelectSeq(Matches(ch1_data, ch3_data), LAMBDA m : m.matched)
    IN [k \in 1..Len(kept) |-> ch1_dict[kept[k].ts] - ch3_dict[kept[k].closest_ts]]

\* max(matched_differences, default=None): the largest signed difference.
MaxOrNone(diffs) ==
    IF diffs = <<>> THEN None
    ELSE Some(CHOOSE d \in {diffs[k] : k \in 1..Len(diffs)} :
                 \A k \in 1..Len(diffs) : diffs[k] <= d)

\* Lines 118-157 on the two fetched lists.
PeakOfData(ch1_data, ch3_data) ==
    IF ch1_data = <<>> THEN None
    ELSE IF ch3_data = <<>> THEN None
    ELSE MaxOrNone(MatchedDifferences(ch1_data, ch3_data))

\* calculate_peak_difference on the responses of its two fetches, ch1 first;
\* a struct.error of either download propagates.
calculate_peak_difference(response1, response3) ==
    LET ch1 == download_data_range(response1)
    IN IF ch1.kind = "raise" THEN ch1
       ELSE LET ch3 == download_data_range(response3)
            IN IF ch3.kind = "raise" THEN ch3
               ELSE Ok(PeakOfData(ch1.value, ch3.value))

(***************************************************************************)
(* The wire format of a sample stream, as the remote service produces it:  *)
(* 12-byte records, 8-byte big-endian timestamp then 4-byte float.         *)
(***************************************************************************)
EncodeSample(p) == PackBE(p[1], 8) \o PackF(p[2])

RECURSIVE EncodeStream(_)
EncodeStream(points) ==
    IF points = <<>> THEN <<>>
    ELSE EncodeSample(Head(points)) \o EncodeStream(Tail(points))

(***************************************************************************)
(* Bounds and input families of the function-level specifications.         *)
(***************************************************************************)
MaxRecords == 2
HTTP_NOT_FOUND == 404

StreamTimestamps == {0, ONE_SECOND_NS + 1}
StreamValues == {0, THRESHOLD, -300}
StreamSamples == {<<t, v>> : t \in StreamTimestamps, v \in StreamValues}
\* The leftover bytes of a cut-off record: its first k bytes, k in 0..11.
Leftovers == {SubSeq(EncodeSample(<<ONE_SECOND_NS, 300>>), 1, k) : k \in 0..(RECORD_SIZE - 1)}
StreamBodies == {EncodeStream(l) \o t : l \in SeqsUpTo(StreamSamples, MaxRecords), t \in Leftovers}
StreamResponses == {[status |-> st, body |-> b] : st \in {HTTP_OK, HTTP_NOT_FOUND}, b \in StreamBodies}

Pending == [kind |-> "pending"]
\* What one iteration of main's loop did and saw.
NoObs ==
    [result |-> "none",           \* "NoData", "within", "above", "raised" or "interrupted"
     armed_before |-> FALSE,      \* alert_sent when the iteration began
     notified |-> FALSE,          \* send_email_alert was called
     delivery |-> "none",         \* "sent", "failed" or "interrupted" when it was called
     aligned_exceeds |-> FALSE,   \* some same-timestamp pair differs by more than THRESHOLD
     decode_failed |-> FALSE,     \* a fetch got an OK body that does not decode
     prev_class |-> "none",       \* hist.last_class when the iteration began
     prev_ever_above |-> FALSE,   \* hist.ever_above when the iteration began
     fetch_failed |-> FALSE,      \* a fetch of calculate_peak_difference got a non-OK status
     peak_fetches |-> 0,          \* fetches calculate_peak_difference issued
     windows |-> <<>>,            \* their (start, end) windows, in seconds from its now
     since_prev |-> <<>>,         \* seconds since the previous iteration's now, if any
     gap |-> FALSE]               \* the same-timestamp set is disjoint from the previous one

\* What the run did so far.
NoHist ==
    [last_class |-> "none",       \* "within" or "above": the latest iteration with a peak
     ever_above |-> FALSE,        \* some iteration had |peak| > THRESHOLD
     ever_notified |-> FALSE,     \* send_email_alert was called at least once
     handshakes |-> 0,            \* handshake requests issued
     handshake_failed |-> FALSE,  \* the handshake got a non-OK status or a malformed body
     fetched |-> FALSE,           \* some ranged fetch was issued
     interrupted |-> FALSE,       \* KeyboardInterrupt was raised
     printed_at_stop |-> <<>>,    \* what line 228 printed
     prev_aligned |-> {},         \* same-timestamp set of the latest iteration with a peak
     gaps |-> 0,                  \* iterations whose set was disjoint from prev_aligned (capped)
     max_abs_peak |-> <<>>]       \* largest |peak| returned so far, if any

MainIdle ==
    /\ server = <<>>
    /\ auth_token = <<>>
    /\ alert_sent = FALSE
    /\ peak_difference = None
    /\ obs = NoObs
    /\ hist = NoHist

MainUnchanged == UNCHANGED <<server, auth_token, alert_sent, peak_difference, obs, hist>>

(***************************************************************************)
(* SpecStream: download_data_range applied to one response.                *)
(***************************************************************************)
InitStream ==
    /\ pc = "call_download"
    /\ arg \in StreamResponses
    /\ ret = Pending
    /\ MainIdle

CallDownload ==
    /\ pc = "call_download"
    /\ ret' = download_data_range(arg)
    /\ pc' = "ret_download"
    /\ UNCHANGED arg
    /\ MainUnchanged

SpecStream == InitStream /\ [][CallDownload]_vars

StreamReturned == pc = "ret_download"

\* C8: a success body whose length is not a multiple of 12 makes the decoding
\* fail with an error (struct.error, the code's truncated-stream failure); no
\* list of samples, partial or otherwise, is returned.
C8_TruncatedStreamFails ==
    (StreamReturned /\ arg.status = HTTP_OK /\ Len(arg.body) % RECORD_SIZE # 0)
        => (ret.kind = "raise" /\ ret.exc = "struct.error")

C8_Witness ==
    /\ StreamReturned
    /\ arg.status = HTTP_OK
    /\ Len(arg.body) = 2 * RECORD_SIZE + 11
    /\ ret.kind = "raise"

\* C9: a success body whose length is a multiple of 12 (the empty body
\* included) decodes to exactly len/12 samples in buffer order, sample i being
\* the big-endian timestamp and the float of bytes [12i, 12i+12), and encoding
\* the samples again gives the body back.
C9_StreamRoundTrip ==
    (StreamReturned /\ arg.status = HTTP_OK /\ Len(arg.body) % RECORD_SIZE = 0)
        => /\ ret.kind = "ok"
           /\ Len(ret.value) = Len(arg.body) \div RECORD_SIZE
           /\ \A i \in 1..Len(ret.value) :
                 LET off == RECORD_SIZE * (i - 1)
                 IN ret.value[i] = << UnpackBE(SubSeq(arg.body, off + 1, off + 8)),
                                      UnpackF(SubSeq(arg.body, off + 9, off + 12)) >>
           /\ EncodeStream(ret.value) = arg.body

C9_Witness ==
    /\ StreamReturned
    /\ arg.status = HTTP_OK
    /\ arg.body = EncodeStream(<< <<ONE_SECOND_NS + 1, -300>>, <<0, THRESHOLD>> >>)
    /\ ret = Ok(<< <<ONE_SECOND_NS + 1, -300>>, <<0, THRESHOLD>> >>)

(***************************************************************************)
(* SpecPeak: lines 118-157 of calculate_peak_difference applied to two     *)
(* fetched lists. The timestamps are 0.4 s, exactly 1 s and just over 1 s  *)
(* apart; lists may be unsorted and may repeat a timestamp.                *)
(***************************************************************************)
MaxSamples == 2

PeakTimestamps == {0, 400000000, ONE_SECOND_NS, 2 * ONE_SECOND_NS + 1}
PeakValues == {0, 300}
PeakSamples == {<<t, v>> : t \in PeakTimestamps, v \in PeakValues}
PeakLists == SeqsUpTo(PeakSamples, MaxSamples)

InitPeak ==
    /\ pc = "call_peak"
    /\ arg \in {[ch1_data |-> l1, ch3_data |-> l3] : l1 \in PeakLists, l3 \in PeakLists}
    /\ ret = Pending
    /\ MainIdle

CallPeak ==
    /\ pc = "call_peak"
    /\ ret' = Ok(PeakOfData(arg.ch1_data, arg.ch3_data))
    /\ pc' = "ret_peak"
    /\ UNCHANGED arg
    /\ MainUnchanged

SpecPeak == InitPeak /\ [][CallPeak]_vars

PeakReturned == pc = "ret_peak"

\* The timestamps at which both channels report a sample (exact equality).
AlignedTimestamps(ch1_data, ch3_data) == Keys(ch1_data) \cap Keys(ch3_data)

\* C5: only samples with exactly equal timestamps are paired: channels with
\* disjoint timestamp sets give no data, and channels sharing exactly one
\* timestamp give that pair's signed difference whatever the other samples.
C5_ExactAlignmentOnly ==
    PeakReturned =>
        LET common == AlignedTimestamps(arg.ch1_data, arg.ch3_data)
        IN /\ common = {} => ret.value = None
           /\ \A t \in common :
                 common = {t} =>
                    ret.value = Some(DictOf(arg.ch1_data)[t] - DictOf(arg.ch3_data)[t])

\* The signed differences of the pairs the code matched, with the monitored
\* timestamp of each.
MatchedPairs(ch1_data, ch3_data) ==
    LET ch1_dict == DictOf(ch1_data)
        ch3_dict == DictOf(ch3_data)
        ms == Matches(ch1_data, ch3_data)
    IN {[ts |-> ms[k].ts, diff |-> ch1_dict[ms[k].ts] - ch3_dict[ms[k].closest_ts]] :
            k \in {j \in 1..Len(ms) : ms[j].matched}}

\* The pair of largest absolute difference, the earliest on a tie.
ArgmaxAbs(pairs) ==
    CHOOSE p \in pairs :
        \A q \in pairs :
            \/ Abs(p.diff) > Abs(q.diff)
            \/ Abs(p.diff) = Abs(q.diff) /\ p.ts <= q.ts

\* C6: the returned peak is the signed difference of the pair whose absolute
\* difference is largest, a tie going to the earliest timestamp (stated over
\* the pairs the code itself matched).
C6_PeakIsArgmaxAbs ==
    (PeakReturned /\ arg.ch1_data # <<>> /\ arg.ch3_data # <<>>) =>
        LET pairs == MatchedPairs(arg.ch1_data, arg.ch3_data)
        IN pairs # {} => ret.value = Some(ArgmaxAbs(pairs).diff)

(***************************************************************************)
(* SpecAuth: authenticate_key's decoding applied to one handshake response *)
(* built with the documented layout: 4-byte length and token, a run of NUL *)
(* padding, 4-byte length and host name. Token and host name are text      *)
(* without NUL characters.                                                 *)
(***************************************************************************)
MaxTextLen == 2
MaxPadding == 2

RECURSIVE Repeat(_, _)
Repeat(b, n) == IF n = 0 THEN <<>> ELSE <<b>> \o Repeat(b, n - 1)

TextBytes == {65, 66}
\* Short texts, and one of the largest plausible length.
Texts == SeqsUpTo(TextBytes, MaxTextLen) \cup {Repeat(65, MAX_SERVER_LEN)}

EncodeAuth(token, padding, host) ==
    PackBE(Len(token), 4) \o token \o Repeat(0, padding) \o PackBE(Len(host), 4) \o host

AuthArgs ==
    {[token |-> t, padding |-> p, host |-> h,
      response |-> [status |-> HTTP_OK, body |-> EncodeAuth(t, p, h)]] :
        t \in Texts, p \in 0..MaxPadding, h \in Texts}

InitAuth ==
    /\ pc = "call_auth"
    /\ arg \in AuthArgs
    /\ ret = Pending
    /\ MainIdle

CallAuth ==
    /\ pc = "call_auth"
    /\ ret' = authenticate_key(arg.response)
    /\ pc' = "ret_auth"
    /\ UNCHANGED arg
    /\ MainUnchanged

SpecAuth == InitAuth /\ [][CallAuth]_vars

AuthReturned == pc = "ret_auth"

RoundTrips == ret = Ok([server |-> arg.host, auth_token |-> arg.token])

NoPlausibleLength(data) ==
    LET first == 4 + UnpackBE(Slice(data, 0, 4))
    IN \A off \in first..(Len(data) - 5) :
          LET read == UnpackBE(Slice(data, off, off + 4))
          IN read < 1 \/ read > MAX_SERVER_LEN

\* C11: a handshake body shorter than 8 bytes, or one whose scan finds no
\* plausible length (the empty scan range included), is reported as the error
\* value (None, None): no host name is made up and no exception escapes.
C11_MalformedIsErrorValue ==
    (AuthReturned /\ (Len(arg.response.body) < MIN_AUTH_LEN
                        \/ NoPlausibleLength(arg.response.body)))
        => ret = NoneNone

(***************************************************************************)
(* Spec: main. One handshake, then the polling loop: six display fetches   *)
(* (lines 197-206), calculate_peak_difference with its two fetches, the    *)
(* alert logic, and the 120-second sleep; KeyboardInterrupt ends the loop. *)
(***************************************************************************)
NumLoopTimestamps == 2

\* Timestamps more than one second apart.
LoopTimestamp(k) == k * (ONE_SECOND_NS + 1)
MonitoredValues == {0, THRESHOLD, 300}
ReferenceValues == {0, 300}

RECURSIVE ChannelLists(_, _)
\* The lists that report, in time order, at most one sample for each of the
\* first n timestamps.
ChannelLists(values, n) ==
    IF n = 0 THEN {<<>>}
    ELSE LET shorter == ChannelLists(values, n - 1)
         IN shorter \cup {Append(l, <<LoopTimestamp(n - 1), v>>) : l \in shorter, v \in values}

CutOff == SubSeq(EncodeSample(<<0, 300>>), 1, 5)

\* What a ranged fetch may answer: a stream of samples, a stream cut off in
\* the middle of a record, or a non-OK status.
FetchResponses(values) ==
    {[status |-> HTTP_OK, body |-> EncodeStream(l)] : l \in ChannelLists(values, NumLoopTimestamps)}
        \cup {[status |-> HTTP_OK, body |-> EncodeStream(<< <<0, 0>> >>) \o CutOff],
              [status |-> HTTP_NOT_FOUND, body |-> <<>>]}

MonitoredResponses == FetchResponses(MonitoredValues)
ReferenceResponses == FetchResponses(ReferenceValues)

GoodFetch == [status |-> HTTP_OK, body |-> EncodeStream(<< <<0, 300>> >>)]
BadFetch == [status |-> HTTP_OK, body |-> CutOff]
FailedFetch == [status |-> HTTP_NOT_FOUND, body |-> <<>>]

\* The answers to the six display fetches of one iteration (ch1, ch2, ch3 at
\* line 198, then again in get_peak_values).
DisplayRuns ==
    {[i \in 1..6 |-> GoodFetch], [i \in 1..6 |-> FailedFetch],
     [i \in 1..6 |-> IF i = 2 THEN BadFetch ELSE GoodFetch],
     [i \in 1..6 |-> IF i = 6 THEN BadFetch ELSE FailedFetch]}

DisplayRaises(display) ==
    \E i \in 1..6 : download_data_range(display[i]).kind = "raise"

\* Whether the display fetches of an iteration end it with an exception.
DisplayOutcomes == {DisplayRaises(display) : display \in DisplayRuns}

HandshakeResponses ==
    {[status |-> HTTP_NOT_FOUND, body |-> <<>>],
     [status |-> HTTP_OK, body |-> <<0, 0, 0>>],
     [status |-> HTTP_OK, body |-> EncodeAuth(<<65>>, 0, <<66, 65>>)],
     [status |-> HTTP_OK, body |-> EncodeAuth(<<65, 66>>, 2, <<66>>)],
     [status |-> HTTP_OK, body |-> EncodeAuth(<<>>, 0, <<66>>)],
     [status |-> HTTP_OK, body |-> EncodeAuth(<<65>>, 1, <<>>)],
     [status |-> HTTP_OK, body |-> EncodeAuth(<<65>>, 0, <<>>)]}

\* The handshake got a non-OK status, or a body the documented layout does
\* not decode.
HandshakeFailed(response) ==
    \/ response.status # HTTP_OK
    \/ Len(response.body) < MIN_AUTH_LEN
    \/ NoPlausibleLength(response.body)

Init ==
    /\ pc = "auth"
    /\ MainIdle
    /\ arg = <<>>
    /\ ret = Pending

\* Slip: `if server is None:`, which lets an empty host name through.
AuthFailsOnNoneOnly(r) == r.kind = "none"

\* Line 183: `if not server or not auth_token`.
AuthFails(r) == r.kind = "none" \/ r.value.server = <<>> \/ r.value.auth_token = <<>>

\* Lines 182-188: the handshake; an exception of authenticate_key is not
\* caught, and an empty or missing server or token ends the run.
Authenticate ==
    /\ pc = "auth"
    /\ \E response \in HandshakeResponses :
          LET r == authenticate_key(response)
          IN /\ hist' = [hist EXCEPT !.handshakes = @ + 1,
                                     !.handshake_failed = HandshakeFailed(response)]
             /\ IF r.kind = "raise"
                THEN pc' = "crashed" /\ UNCHANGED <<server, auth_token>>
                ELSE IF AuthFails(r)
                THEN pc' = "exited" /\ UNCHANGED <<server, auth_token>>
                ELSE /\ pc' = "cycle"
                     /\ server' = r.value.server
                     /\ auth_token' = r.value.auth_token
    /\ UNCHANGED <<alert_sent, peak_difference, obs, arg, ret>>

Class(peak) ==
    IF peak = None THEN "NoData"
    ELSE IF Abs(peak[1]) > THRESHOLD THEN "above" ELSE "within"

\* Lines 210-222: whether send_email_alert is called for this peak.
Notifies(armed, peak) == peak # None /\ Abs(peak[1]) > THRESHOLD /\ ~armed

\* Slip: the flag recomputed from the peak in every iteration, so that an
\* iteration without data clears it.
NextAlertSentFromPeak(armed, peak) == peak # None /\ Abs(peak[1]) > THRESHOLD

\* Lines 216-218: the flag after the iteration; it is only ever set.
NextAlertSent(armed, peak) == armed \/ Notifies(armed, peak)

\* Slip: no try/except around the SMTP session.
send_email_alert_unguarded(smtp_ok) == IF smtp_ok THEN Ok(None) ELSE Raise("SMTPException")

\* send_email_alert: the except clause of lines 174-175 swallows a failure of
\* the SMTP session.
send_email_alert(smtp_ok) == Ok(None)

\* Some pair of samples with the same timestamp differs by more than THRESHOLD.
AlignedExceeds(ch1_data, ch3_data) ==
    \E t \in AlignedTimestamps(ch1_data, ch3_data) :
        Abs(DictOf(ch1_data)[t] - DictOf(ch3_data)[t]) > THRESHOLD

WINDOW_SECONDS == 120
SLEEP_SECONDS == 120
MaxElapsed == 1
MaxGaps == 2

\* Lines 112-116: both fetches get (start_ns, now_ns) of the one now read at
\* line 112; in seconds.
FetchWindows(now) ==
    [ch1 |-> [start |-> now - WINDOW_SECONDS, end |-> now],
     ch3 |-> [start |-> now - WINDOW_SECONDS, end |-> now]]

\* What calculate_peak_difference makes of the answers to its two fetches,
\* with what the answers held.
PeakOutcome(response1, response3) ==
    LET r == calculate_peak_difference(response1, response3)
        ch1 == download_data_range(response1)
        ch3 == download_data_range(response3)
    IN IF r.kind = "raise"
       THEN [kind |-> "raise", peak |-> None, aligned |-> {}, aligned_exceeds |-> FALSE,
             fetches |-> IF ch1.kind = "raise" THEN 1 ELSE 2,
             fetch_failed |-> ch1.kind # "raise" /\ response1.status # HTTP_OK]
       ELSE [kind |-> "ok", peak |-> r.value,
             aligned |-> AlignedTimestamps(ch1.value, ch3.value),
             aligned_exceeds |-> AlignedExceeds(ch1.value, ch3.value),
             fetches |-> 2,
             fetch_failed |-> response1.status # HTTP_OK \/ response3.status # HTTP_OK]

PeakOutcomes ==
    {PeakOutcome(response1, response3) :
        response1 \in MonitoredResponses, response3 \in ReferenceResponses}

\* The cross-iteration state main keeps (line 188).
RunState == [alert_sent |-> alert_sent]

\* An exception other than KeyboardInterrupt leaves main.
Crash(decode_failed, fetch_failed, fetches) ==
    /\ pc' = "crashed"
    /\ obs' = [NoObs EXCEPT !.result = "raised",
                             !.armed_before = alert_sent,
                             !.decode_failed = decode_failed,
                             !.fetch_failed = fetch_failed,
                             !.peak_fetches = fetches,
                             !.prev_class = hist.last_class,
                             !.prev_ever_above = hist.ever_above]
    /\ hist' = [hist EXCEPT !.fetched = TRUE]
    /\ UNCHANGED <<alert_sent, peak_difference>>

\* What the iteration saw, whatever it then did.
Seen(outcome, elapsed) ==
    [NoObs EXCEPT !.armed_before = alert_sent,
                  !.aligned_exceeds = outcome.aligned_exceeds,
                  !.prev_class = hist.last_class,
                  !.prev_ever_above = hist.ever_above,
                  !.fetch_failed = outcome.fetch_failed,
                  !.peak_fetches = outcome.fetches,
                  !.windows = FetchWindows(0),
                  !.since_prev = IF obs.result = "none" THEN None
                                 ELSE Some(SLEEP_SECONDS + elapsed),
                  !.gap = /\ outcome.peak # None
                          /\ hist.prev_aligned # {}
                          /\ hist.prev_aligned \cap outcome.aligned = {}]

\* Lines 208-224 once the peak is known, up to the call of time.sleep.
Evaluate(outcome, elapsed) ==
    LET peak == outcome.peak
        notify == Notifies(alert_sent, peak)
        class == Class(peak)
        seen == Seen(outcome, elapsed)
    IN \E smtp_ok \in (IF notify THEN BOOLEAN ELSE {TRUE}) :
          IF notify /\ send_email_alert(smtp_ok).kind = "raise"
          THEN /\ pc' = "crashed"
               /\ obs' = [seen EXCEPT !.result = "raised", !.notified = TRUE,
                                       !.delivery = "failed"]
               /\ hist' = [hist EXCEPT !.fetched = TRUE, !.ever_notified = TRUE]
               /\ UNCHANGED <<alert_sent, peak_difference>>
          ELSE /\ peak_difference' = peak
               /\ alert_sent' = NextAlertSent(alert_sent, peak)
               /\ obs' = [seen EXCEPT !.result = class,
                                       !.notified = notify,
                                       !.delivery = IF ~notify THEN "none"
                                                    ELSE IF smtp_ok THEN "sent" ELSE "failed"]
               /\ hist' = [hist EXCEPT
                             !.last_class = IF class = "NoData" THEN @ ELSE class,
                             !.ever_above = @ \/ class = "above",
                             !.ever_notified = @ \/ notify,
                             !.fetched = TRUE,
                             !.prev_aligned = IF class = "NoData" THEN @ ELSE outcome.aligned,
                             !.gaps = IF seen.gap THEN Min(@ + 1, MaxGaps) ELSE @,
                             !.max_abs_peak =
                                 IF class = "NoData" THEN @
                                 ELSE IF @ = None \/ @[1] < Abs(peak[1])
                                 THEN Some(Abs(peak[1])) ELSE @]
               /\ pc' = "sleep"

\* One iteration of the while loop. struct.error is no KeyboardInterrupt, so
\* a body that does not decode ends main with the exception.
Cycle ==
    /\ pc = "cycle"
    /\ \E display_raises \in DisplayOutcomes :
          IF display_raises
          THEN Crash(TRUE, FALSE, 0)
          ELSE \E outcome \in PeakOutcomes :
                  IF outcome.kind = "raise"
                  THEN Crash(TRUE, outcome.fetch_failed, outcome.fetches)
                  ELSE \E elapsed \in 0..MaxElapsed : Evaluate(outcome, elapsed)
    /\ UNCHANGED <<server, auth_token, arg, ret>>

\* time.sleep(120) returns and the loop goes round.
Wake ==
    /\ pc = "sleep"
    /\ pc' = "cycle"
    /\ UNCHANGED <<server, auth_token, alert_sent, peak_difference, obs, hist, arg, ret>>

\* Slip: the except clause at the loop's level of indentation with `continue`,
\* so that the loop goes on after the interrupt.
AfterInterruptContinue(position) == position

\* Lines 227-228: KeyboardInterrupt leaves the while loop, whatever the
\* position it was raised at; main prints one line and returns.
AfterInterrupt(position) == "stopped"

StopLines == <<[text |-> "Stopping live data retrieval."]>>

Stopped == [hist EXCEPT !.interrupted = TRUE, !.printed_at_stop = StopLines]

\* KeyboardInterrupt between iterations, while an iteration fetches and
\* analyses, or during the sleep (which it cuts short).
Interrupt ==
    /\ pc \in {"cycle", "sleep"}
    /\ pc' = AfterInterrupt(pc)
    /\ hist' = Stopped
    /\ UNCHANGED <<server, auth_token, alert_sent, peak_difference, obs, arg, ret>>

\* KeyboardInterrupt inside send_email_alert, whose except clause catches
\* Exception only: the mail may have gone out or not, and line 218 is not
\* reached.
InterruptSend ==
    /\ pc = "cycle"
    /\ \E outcome \in PeakOutcomes, elapsed \in 0..MaxElapsed, went_out \in BOOLEAN :
          /\ outcome.kind = "ok"
          /\ Notifies(alert_sent, outcome.peak)
          /\ obs' = [Seen(outcome, elapsed) EXCEPT
                        !.result = "interrupted",
                        !.notified = TRUE,
                        !.delivery = IF went_out THEN "sent" ELSE "interrupted"]
    /\ pc' = AfterInterrupt(pc)
    /\ hist' = [Stopped EXCEPT !.fetched = TRUE, !.ever_notified = TRUE]
    /\ UNCHANGED <<server, auth_token, alert_sent, peak_difference, arg, ret>>

Next == Authenticate \/ Cycle \/ Wake \/ Interrupt \/ InterruptSend

Spec == Init /\ [][Next]_vars

\* C1: an iteration that starts unarmed and fetches some same-timestamp pair
\* with |monitored - reference| > THRESHOLD, of either sign, calls
\* send_email_alert in that iteration.
C1_NotifyOnExceed ==
    (obs.aligned_exceeds /\ ~obs.armed_before) => obs.notified

\* C2: the alert re-arms: after an excursion has ended (an iteration above the
\* threshold, later one at or below it), the next iteration above the
\* threshold notifies again.
C2_NotifiesAgainAfterReset ==
    (obs.result = "above" /\ obs.prev_class = "within" /\ obs.prev_ever_above)
        => obs.notified

\* C3: one notification per excursion, in its first iteration: none at or
\* below the threshold or without data, none in a later iteration of a run
\* above the threshold (iterations without data skipped), one in the first.
C3_OneNotificationPerExcursion ==
    /\ obs.result \in {"within", "NoData"} => ~obs.notified
    /\ (obs.result = "above" /\ obs.prev_class = "above") => ~obs.notified
    /\ (obs.result = "above" /\ obs.prev_class # "above") => obs.notified

\* C4: between iterations alert_sent is true exactly when the latest
\* iteration that produced a peak had |peak| > THRESHOLD; it is false before
\* the first one.
C4_ArmedIffLastPeakAbove ==
    pc \in {"cycle", "sleep", "stopped"} => (alert_sent <=> hist.last_class = "above")

\* C7: an OK body that does not decode makes its iteration a no-data one (no
\* notification, alert_sent unchanged) and the loop carries on to its sleep.
C7_DecodeFailureIsolated ==
    obs.decode_failed =>
        /\ pc \in {"sleep", "cycle", "stopped"}
        /\ obs.result = "NoData"
        /\ ~obs.notified
        /\ alert_sent = obs.armed_before

\* C12: a handshake that gets a non-success status or a body that does not
\* decode ends the run: one handshake request was issued, and the run issues
\* no ranged fetch and no notification.
C12_AuthFailureIsFatal ==
    /\ hist.handshakes <= 1
    /\ hist.handshake_failed =>
          /\ pc \in {"exited", "crashed"}
          /\ hist.handshakes = 1
          /\ ~hist.fetched
          /\ ~hist.ever_notified
          /\ obs = NoObs

C12_Witness == hist.handshake_failed /\ pc = "exited" /\ hist.handshakes = 1

\* C13: the run state holds gap_count, the number of iterations with a peak
\* whose same-timestamp set was disjoint from that of the latest earlier
\* iteration with a peak.
C13_GapCountKept ==
    hist.gaps > 0 =>
        /\ "gap_count" \in DOMAIN RunState
        /\ RunState.gap_count = hist.gaps

\* C14: the run state holds max_divergence_seen, the largest |peak| over the
\* iterations that had a peak.
C14_MaxDivergenceKept ==
    hist.max_abs_peak # None =>
        /\ "max_divergence_seen" \in DOMAIN RunState
        /\ RunState.max_divergence_seen = hist.max_abs_peak[1]

\* C15: when the operator interrupts the run, it emits a summary of whether a
\* notification fired, max_divergence_seen and gap_count, as they are then.
C15_SummaryOnInterrupt ==
    pc = "stopped" =>
        \E i \in DOMAIN hist.printed_at_stop :
            LET line == hist.printed_at_stop[i]
            IN /\ {"alert_fired", "max_divergence_seen", "gap_count"} \subseteq DOMAIN line
               /\ line.alert_fired = hist.ever_notified
               /\ line.max_divergence_seen = hist.max_abs_peak
               /\ line.gap_count = hist.gaps

\* C16: an interrupt, wherever in an iteration or in the sleep it is raised,
\* ends the loop at once: no further iteration starts, the sleep is not
\* waited out, and afterwards no notification goes out and the flag keeps
\* its value.
C16_CancellationPromptAndInert ==
    [][/\ hist'.interrupted => pc' = "stopped"
       /\ hist'.interrupted /\ ~hist.interrupted => alert_sent' = alert_sent
       /\ hist.interrupted =>
             /\ pc' = "stopped"
             /\ alert_sent' = alert_sent
             /\ obs' = obs
             /\ hist'.ever_notified = hist.ever_notified]_vars

C16_Witness ==
    /\ pc = "stopped"
    /\ hist.interrupted
    /\ obs.result = "interrupted"
    /\ obs.delivery = "interrupted"
    /\ ~alert_sent

\* C17: an iteration without data changes nothing main keeps across
\* iterations and sends no notification; the flag set before it is still set
\* after it, so the next iteration above the threshold does not notify.
C17_NoDataLeavesStateUnchanged ==
    [][/\ obs' # obs /\ obs'.result = "NoData" =>
             /\ RunState' = RunState
             /\ server' = server
             /\ auth_token' = auth_token
             /\ ~obs'.notified
             /\ obs'.delivery = "none"
       /\ obs.result = "NoData" /\ obs.armed_before /\ obs' # obs =>
             ~obs'.notified]_vars

C17_Witness ==
    /\ obs.result = "NoData"
    /\ obs.armed_before
    /\ obs.prev_class = "above"
    /\ alert_sent
    /\ pc = "sleep"

\* C18: an iteration in which a fetch of the peak computation gets a
\* non-success status has no data, issues both fetches once and goes on to
\* the sleep.
C18_FailedFetchIsNoData ==
    obs.fetch_failed =>
        /\ obs.result = "NoData"
        /\ obs.peak_fetches = 2
        /\ pc # "crashed"

\* C19: a notification that fails to go out does not end the loop and
\* leaves the flag set at the end of the iteration, so later iterations do
\* not send it again.
C19_DeliveryFailureRecovered ==
    [][/\ obs'.delivery = "failed" => alert_sent' /\ pc' # "crashed"
       /\ obs.delivery = "failed" /\ pc = "sleep" => pc' \in {"cycle", "stopped"}
       /\ alert_sent /\ obs' # obs => ~obs'.notified]_vars

C19_Witness ==
    /\ obs.delivery = "failed"
    /\ obs.result = "above"
    /\ alert_sent
    /\ pc = "cycle"

\* C20: both fetches of the peak computation use the window of the 10
\* minutes before the iteration's now, so the windows of consecutive
\* iterations cover every instant between them.
C20_TenMinuteWindow ==
    obs.windows # <<>> =>
        /\ obs.windows.ch1 = obs.windows.ch3
        /\ obs.windows.ch1 = [start |-> 0 - 10 * 60, end |-> 0]
        /\ obs.since_prev # None =>
              obs.since_prev[1] <= obs.windows.ch1.end - obs.windows.ch1.start

RECURSIVE LastValueAt(_, _, _)
\* The value of the sample with timestamp t that comes last in data[1..n].
LastValueAt(data, t, n) ==
    IF data[n][1] = t THEN data[n][2] ELSE LastValueAt(data, t, n - 1)

\* C21: when a channel's samples repeat a timestamp, the value that enters
\* the differences is that of the last such sample as received, for the
\* monitored and for the reference channel.
C21_LastWriteWins ==
    (PeakReturned /\ arg.ch1_data # <<>> /\ arg.ch3_data # <<>>) =>
        LET ms == Matches(arg.ch1_data, arg.ch3_data)
            kept == SelectSeq(ms, LAMBDA m : m.matched)
            diffs == [k \in 1..Len(kept) |->
                        LastValueAt(arg.ch1_data, kept[k].ts, Len(arg.ch1_data))
                        - LastValueAt(arg.ch3_data, kept[k].closest_ts, Len(arg.ch3_data))]
        IN ret.value = MaxOrNone(diffs)

C21_Witness ==
    /\ PeakReturned
    /\ arg.ch1_data = <<<<0, 0>>, <<0, 300>>>>
    /\ arg.ch3_data = <<<<0, 300>>, <<0, 0>>>>
    /\ ret.value = Some(300)

(***************************************************************************)
(* SpecMatch: the matching loop of calculate_peak_difference (lines        *)
(* 129-150) on the sorted keys of two non-empty dictionaries. Timestamps   *)
(* are half a second apart, so that a monitored timestamp can lie midway   *)
(* between two reference timestamps and exactly one second from one.       *)
(***************************************************************************)
NumMatchTimestamps == 5
HALF_SECOND_NS == 500000000

MatchTimestamps == {k * HALF_SECOND_NS : k \in 0..(NumMatchTimestamps - 1)}

MatchKeySets == (SUBSET MatchTimestamps) \ {{}}

InitMatch ==
    /\ pc = "call_match"
    /\ arg \in {[ch1_timestamps |-> Sorted(k1), ch3_timestamps |-> Sorted(k3)] :
                    k1 \in MatchKeySets, k3 \in MatchKeySets}
    /\ ret = Pending
    /\ MainIdle

CallMatch ==
    /\ pc = "call_match"
    /\ ret' = Ok(MatchLoop(arg.ch1_timestamps, arg.ch3_timestamps, 1, 0))
    /\ pc' = "ret_match"
    /\ UNCHANGED arg
    /\ MainUnchanged

SpecMatch == InitMatch /\ [][CallMatch]_vars

MatchReturned == pc = "ret_match"

\* C22: every monitored timestamp, taken in ascending order, is matched with
\* a reference timestamp at the least distance over all reference
\* timestamps, the earlier one when two are equally close.
C22_NearestReferenceSelected ==
    MatchReturned =>
        /\ Len(ret.value) = Len(arg.ch1_timestamps)
        /\ \A k \in 1..Len(ret.value) :
              LET m == ret.value[k]
                  refs == {arg.ch3_timestamps[j] : j \in 1..Len(arg.ch3_timestamps)}
              IN /\ m.ts = arg.ch1_timestamps[k]
                 /\ m.closest_ts \in refs
                 /\ \A r \in refs :
                       \/ Abs(r - m.ts) > Abs(m.closest_ts - m.ts)
                       \/ Abs(r - m.ts) = Abs(m.closest_ts - m.ts) /\ m.closest_ts <= r

\* A monitored timestamp midway between two reference timestamps, reached
\* after the index has already moved for an earlier monitored timestamp.
C22_Witness ==
    /\ MatchReturned
    /\ arg.ch1_timestamps = <<HALF_SECOND_NS, 3 * HALF_SECOND_NS>>
    /\ arg.ch3_timestamps = <<0, 2 * HALF_SECOND_NS, 4 * HALF_SECOND_NS>>
    /\ ret.value[1].closest_ts = 0
    /\ ret.value[2].closest_ts = 2 * HALF_SECOND_NS

\* Some monitored timestamp has a reference timestamp at most one second
\* away.
SomeWithinOneSecond(ch1_data, ch3_data) ==
    \E t1 \in Keys(ch1_data), t3 \in Keys(ch3_data) : Abs(t1 - t3) <= ONE_SECOND_NS

\* C23: a difference enters the result only for a monitored sample whose
\* reference timestamp is at most one second away (one second included),
\* every monitored timestamp gives at most one difference, and the result is
\* None exactly when a channel is empty or no monitored timestamp has a
\* reference timestamp within one second.
C23_ToleranceAndNoData ==
    PeakReturned =>
        LET ch1_data == arg.ch1_data
            ch3_data == arg.ch3_data
        IN /\ ret.value = None <=>
                 \/ ch1_data = <<>>
                 \/ ch3_data = <<>>
                 \/ ~SomeWithinOneSecond(ch1_data, ch3_data)
           /\ ret.value # None =>
                 \E t1 \in Keys(ch1_data), t3 \in Keys(ch3_data) :
                     /\ Abs(t1 - t3) <= ONE_SECOND_NS
                     /\ ret.value = Some(LastValueAt(ch1_data, t1, Len(ch1_data))
                                         - LastValueAt(ch3_data, t3, Len(ch3_data)))
           /\ (ch1_data # <<>> /\ ch3_data # <<>>) =>
                 Len(MatchedDifferences(ch1_data, ch3_data))
                     = Cardinality({t1 \in Keys(ch1_data) :
                                      \E t3 \in Keys(ch3_data) : Abs(t1 - t3) <= ONE_SECOND_NS})

\* A pair exactly one second apart gives a difference; the other monitored
\* sample, a nanosecond more than a second from every reference sample, does
\* not.
C23_Witness ==
    /\ PeakReturned
    /\ arg.ch1_data = <<<<0, 300>>, <<2 * ONE_SECOND_NS + 1, 0>>>>
    /\ arg.ch3_data = <<<<ONE_SECOND_NS, 0>>>>
    /\ ret.value = Some(300)

====
